---- MODULE Spec2Model ----
(***************************************************************************)
(* Twilio Media Streams <-> Gemini Live bridge (server.js, first revision, *)
(* src/unnamed/part_000 lines 1-399): the per-connection state of          *)
(* wss.on("connection") and its handlers, as a state machine.              *)
(*                                                                         *)
(* JavaScript runs every handler to completion up to its next `await`;     *)
(* each action below is one such run-to-completion segment.  An `await`    *)
(* on the AI adapter (open, send, close) is a suspension point at which    *)
(* any other event of the connection may be handled.                       *)
(*                                                                         *)
(* The config and router service of the same repository (src/server.js,    *)
(* lines 1-457: the sheet cache, the keyword router and its Gemini         *)
(* fallback) is the second state machine of the module; its variables are  *)
(* ENV, CACHE, LAST_GEMINI_ROUTER_ERROR, now, sheet, reqs, nReq, answered. *)
(***************************************************************************)
EXTENDS Integers, Sequences, FiniteSets, Bags, TLC

\* ---------------------------------------------------------------- bounds
MaxIn == 3          \* transport events handled: start, media, stop, error, close
MaxAiMsg == 2       \* messages the AI service streams back, all sessions

\* ------------------------------------------------------ program constants
TWILIO_FRAME_MS == 20
TWILIO_RATE == 8000
TWILIO_FRAME_BYTES == (TWILIO_RATE * TWILIO_FRAME_MS) \div 1000
GEMINI_IN_RATE == 16000
GEMINI_OUT_RATE_DEFAULT == 24000

\* `let geminiSession = null`, `let playTimer = null`, `let streamSid = null`
NoSession == 0
NoTimer == 0
NoSid == "null"
\* no media message sent yet
NoMsg == "none"

Min(a, b) == IF a < b THEN a ELSE b
Max(a, b) == IF a > b THEN a ELSE b

\* ------------------------------------------------------------ pure helpers

\* resamplePcm16Linear, sample count of the result (the samples themselves do
\* not decide framing): the fast path returns the input, otherwise
\* Math.max(1, Math.floor(inSamples * ratio)).
ResampleLen(inSamples, inRate, outRate) ==
  IF inRate = outRate THEN inSamples
  ELSE Max(1, (inSamples * outRate) \div inRate)

\* the samples a PCM16 buffer holds: readInt16LE / writeInt16LE
Int16Min == -32768
Int16Max == 32767
Int16 == Int16Min..Int16Max

\* G.711 mu-law
MULAW_MAX == 8191
BIAS == 33

Pow2(k) == 2 ^ k
\* x << k, and x >> k on a value that is not negative
Shl(x, k) == x * Pow2(k)
Shr(x, k) == x \div Pow2(k)
\* ~x on a 32-bit integer, and x & 0xff
BitNot(x) == (-x) - 1
Byte(x) == x % 256

\* mulawToLinearSample(muLawByte)
mulawToLinearSample(muLawByte) ==
  LET u == Byte(BitNot(muLawByte))
      sign == Shr(u, 7) * 128                 \* u & 0x80
      exponent == Shr(u, 4) % 8               \* (u >> 4) & 0x07
      mantissa == u % 16                      \* u & 0x0f
      sample == Shl(Shl(mantissa, 1) + 1, exponent + 2) - BIAS
  IN IF sign # 0 THEN -sample ELSE sample

\* `for (exp = 0; exp < 8; exp++) if (s <= (0x1f << (exp + 3))) {...; break}`
\* with `let exponent = 7` before it
RECURSIVE FindExponent(_, _)
FindExponent(s, exp) ==
  IF exp >= 8 THEN 7
  ELSE IF s <= Shl(31, exp + 3) THEN exp
  ELSE FindExponent(s, exp + 1)

\* sign | (exponent << 4) | mantissa, the three fields in disjoint bits
MulawFields(sample) ==
  LET c == IF sample > Int16Max THEN Int16Max
           ELSE IF sample < Int16Min THEN Int16Min ELSE sample
      sign == IF c < 0 THEN 128 ELSE 0
      mag == IF c < 0 THEN -c ELSE c
      s == IF mag + BIAS > MULAW_MAX THEN MULAW_MAX ELSE mag + BIAS
      exponent == FindExponent(s, 0)
      mantissa == Shr(s, exponent + 3) % 16
  IN sign + Shl(exponent, 4) + mantissa

\* fault: the complement is returned without `& 0xff`
linearToMulawNoMask(sample) == BitNot(MulawFields(sample))
\* linearToMulawSample(sample)
linearToMulawSample(sample) == Byte(BitNot(MulawFields(sample)))

\* fault: the nearest integer to n / d with a tie going away from zero
MathRoundAwayFromZero(n, d) ==
  IF n >= 0 THEN (2 * n + d) \div (2 * d) ELSE 0 - ((d - 2 * n) \div (2 * d))

\* Math.round(n / d), d > 0: the nearest integer, a tie goes up
MathRound(n, d) == (2 * n + d) \div (2 * d)

\* fault: the upper neighbour is i0 + 1 without Math.min(..., inSamples - 1);
\* a read past the last sample is undefined, the NaN is stored as 0
ResampleAtNoClamp(inArr, i, inRate, outRate) ==
  LET inSamples == Len(inArr)
      i0 == (i * inRate) \div outRate
      t == (i * inRate) % outRate
  IN IF inSamples = 0 \/ i0 + 1 > inSamples - 1 THEN 0
     ELSE MathRound(inArr[i0 + 1] * outRate + (inArr[i0 + 2] - inArr[i0 + 1]) * t,
                    outRate)

\* one output sample of the resampler, i counted from 0: srcPos = i / ratio is
\* (i * inRate) / outRate, i0 its floor and t its fraction
ResampleAt(inArr, i, inRate, outRate) ==
  LET inSamples == Len(inArr)
      i0 == (i * inRate) \div outRate
      i1 == Min(i0 + 1, inSamples - 1)
      t == (i * inRate) % outRate             \* t * outRate
  IN IF inSamples = 0 THEN 0                  \* NaN, stored as 0
     ELSE MathRound(inArr[i0 + 1] * outRate + (inArr[i1 + 1] - inArr[i0 + 1]) * t,
                    outRate)

\* fault: outSamples = Math.floor(inSamples * ratio), without Math.max(1, ...)
resampleNoMinOne(pcmBuf, inRate, outRate) ==
  IF inRate = outRate THEN pcmBuf
  ELSE [i \in 1..((Len(pcmBuf) * outRate) \div inRate) |->
          ResampleAt(pcmBuf, i - 1, inRate, outRate)]
\* fault: the fast path returns a fresh buffer that was never filled
resampleZeroedCopy(pcmBuf, inRate, outRate) ==
  IF inRate = outRate THEN [i \in 1..Len(pcmBuf) |-> 0]
  ELSE [i \in 1..Max(1, (Len(pcmBuf) * outRate) \div inRate) |->
          ResampleAt(pcmBuf, i - 1, inRate, outRate)]
\* resamplePcm16Linear(pcmBuf, inRate, outRate) on the samples of the buffer
resamplePcm16Linear(pcmBuf, inRate, outRate) ==
  IF inRate = outRate THEN pcmBuf
  ELSE [i \in 1..Max(1, (Len(pcmBuf) * outRate) \div inRate) |->
          ResampleAt(pcmBuf, i - 1, inRate, outRate)]

\* chunkBuffer on lengths: for (i = 0; i < L; i += n) push(subarray(i, min(i+n, L)))
RECURSIVE ChunkFrom(_, _, _)
ChunkFrom(i, L, n) ==
  IF i < L THEN <<Min(i + n, L) - i>> \o ChunkFrom(i + n, L, n) ELSE <<>>

chunkBuffer(L, n) == ChunkFrom(0, L, n)

\* chunkBuffer on the bytes: the slices buf.subarray(i, Math.min(i + n, L)) for
\* i = 0, n, 2n, ... while i < L
RECURSIVE SlicesFrom(_, _, _)
SlicesFrom(buf, i, n) ==
  IF i < Len(buf)
  THEN <<SubSeq(buf, i + 1, Min(i + n, Len(buf)))>> \o SlicesFrom(buf, i + n, n)
  ELSE <<>>

\* fault: the loop runs while i + chunkBytes <= buf.length, the tail is lost
chunkSlicesDropTail(buf, chunkBytes) ==
  SelectSeq(SlicesFrom(buf, 0, chunkBytes), LAMBDA s : Len(s) = chunkBytes)
\* chunkBuffer(buf, chunkBytes)
chunkSlices(buf, chunkBytes) == SlicesFrom(buf, 0, chunkBytes)

\* mulawBytesToPcm16Buffer(muLawBuf), the samples of the buffer it returns
mulawBytesToPcm16Buffer(muLawBuf) ==
  [i \in 1..Len(muLawBuf) |-> mulawToLinearSample(muLawBuf[i])]

\* fault: the decoded 8 kHz buffer is passed on without resampling
InboundPcmNoResample(muLaw) == mulawBytesToPcm16Buffer(muLaw)
\* the media branch from the decoded payload bytes to the buffer it sends:
\* pcm8k = mulawBytesToPcm16Buffer(muLaw), then
\* pcm16k = resamplePcm16Linear(pcm8k, TWILIO_RATE, GEMINI_IN_RATE)
InboundPcm(muLaw) ==
  resamplePcm16Linear(mulawBytesToPcm16Buffer(muLaw), TWILIO_RATE, GEMINI_IN_RATE)

\* pcm16BufferToMulawBytes: one mu-law byte per PCM16 sample
MulawLen(pcmBytes) == pcmBytes \div 2

\* fault: the rate hint of the part is ignored
OutRateDefaultOnly(part) == GEMINI_OUT_RATE_DEFAULT
\* /rate=(\d+)/ on inlineData.mimeType; rate 0 stands for a part without a hint
OutRate(part) == IF part.rate = 0 THEN GEMINI_OUT_RATE_DEFAULT ELSE part.rate

\* ------------------------------------------------------------------ inputs
Sids == {"SX1"}
Openers == {"default", "custom"}
\* `start` messages: msg.start.streamSid (absent: null) and
\* msg.start.customParameters.opening_text (absent: the default OPENING_TEXT)
StartMsgs == { [sid |-> "SX1", opener |-> "default"] }

Part(bytes, rate) == [bytes |-> bytes, rate |-> rate]
\* the shapes of message the response stream delivers: a barge-in alone; a
\* turn of two audio parts, one without a rate hint and shorter than a frame,
\* one with a hint and a whole frame long; a barge-in that also carries audio,
\* a frame and a short tail
AiMsgs ==
  { [interrupted |-> TRUE,  parts |-> <<>>],
    [interrupted |-> FALSE, parts |-> <<Part(6, 0), Part(640, 16000)>>],
    [interrupted |-> TRUE,  parts |-> <<Part(400, 8000)>>] }

VARIABLES
  wsState,        \* ws.readyState: "OPEN", "CLOSING", "CLOSED"
  streamSid,      \* let streamSid
  geminiSession,  \* let geminiSession: a session id, NoSession for null
  playQueue,      \* let playQueue: frames [id, len]
  playTimer,      \* let playTimer: a timer id, NoTimer for null
  interrupted,    \* let interrupted
  liveTimers,     \* intervals armed in the event loop (setInterval, not yet cleared)
  pendingOpen,    \* start handlers suspended in `await createGeminiLiveSession()`, by opener
  awaitEnd,       \* closeAll invocations suspended in `await sendRealtimeInput({audioStreamEnd})`
  awaitClose,     \* closeAll invocations suspended in `await geminiSession.close()`
  sessOpen,       \* AI sessions that are connected (opened and not closed by either
                  \* side); the receiver task of each is in its for-await loop
  nSess,          \* AI sessions opened so far
  aiCalls,        \* calls issued to the AI adapter, per session s: aiCalls[s].text the
                  \* texts sent, .end and .close the number of audioStreamEnd sends
                  \* and of close() calls
  aiAudio,        \* the audio sends issued, in order: [s, id], session and the
                  \* arrival number of the media frame
  sent,           \* ws.send: the frames of the media messages sent, in order
  lastSid,        \* the streamSid of the last media message sent
  produced,       \* frames appended to playQueue so far (frame ids)
  discarded,      \* ids of the frames dropped by stopPlaybackPump
  tornDown,       \* some closeAll invocation has run to its end
  inLog,          \* the transport events handled so far, in arrival order
  nAiMsg,         \* AI messages received so far
  aiFailed,       \* arrival numbers of the media frames whose audio send rejected
  escaped,        \* an exception has left a handler uncaught (a rejected
                  \* promise of an async handler that nothing handles)
  fnOp,           \* pure helpers on their own: the helper applied last,
  fnArg,          \* its argument
  fnRes,          \* and its result
  other,          \* a second connection of the server: its state, while the
                  \* variables above hold the state of the connection `cur`
  cur,            \* the connection whose handler runs next
  ENV,            \* server.js (config and router service): const ENV
  CACHE,          \* let CACHE: [loaded_at, data]
  LAST_GEMINI_ROUTER_ERROR,   \* let LAST_GEMINI_ROUTER_ERROR
  now,            \* Date.now()
  sheet,          \* the version of the spreadsheet that a tab fetch reads
  reqs,           \* the HTTP requests whose handler is suspended in an await,
                  \* each with the position of its handler: a bag of records
  nReq,           \* requests received so far
  answered        \* the request answered last, with its response

\* the state of one connection
connVars == <<wsState, streamSid, geminiSession, playQueue, playTimer,
              interrupted, liveTimers, pendingOpen, awaitEnd, awaitClose,
              sessOpen, nSess, aiCalls, aiAudio, sent, lastSid, produced,
              discarded, tornDown, inLog, nAiMsg, aiFailed, escaped>>
\* a helper call on its own
fnVars == <<fnOp, fnArg, fnRes>>
\* what lies outside the connection whose handler runs
\* the state of the config and router service
srvVars == <<ENV, CACHE, LAST_GEMINI_ROUTER_ERROR, now, sheet, reqs, nReq,
             answered>>
outside == <<fnVars, other, cur, srvVars>>
vars == <<connVars, fnVars, other, cur, srvVars>>

\* the connections of the server
Conns == {1, 2}
\* the variables that the callback of wss.on("connection") declares, one set
\* per connection, with the history kept of that connection
Closure ==
  [wsState |-> wsState,
   streamSid |-> streamSid,
   geminiSession |-> geminiSession,
   playQueue |-> playQueue,
   playTimer |-> playTimer,
   interrupted |-> interrupted,
   liveTimers |-> liveTimers,
   pendingOpen |-> pendingOpen,
   awaitEnd |-> awaitEnd,
   awaitClose |-> awaitClose,
   sessOpen |-> sessOpen,
   nSess |-> nSess,
   aiCalls |-> aiCalls,
   aiAudio |-> aiAudio,
   sent |-> sent,
   lastSid |-> lastSid,
   produced |-> produced,
   discarded |-> discarded,
   tornDown |-> tornDown,
   inLog |-> inLog,
   nAiMsg |-> nAiMsg,
   aiFailed |-> aiFailed,
   escaped |-> escaped]

\* no helper applied
NoCall == "none"

\* ------------------------------------- server.js: config and router service

\* process.env as read into ENV: the defaults, with a service account and the
\* keys set; a field that is FALSE stands for the empty string
GSHEET_CACHE_TTL_SEC == 60
EnvDefault ==
  [GOOGLE_SERVICE_ACCOUNT_JSON |-> TRUE,
   GSHEET_ID |-> TRUE,
   GSHEET_CACHE_TTL_SEC |-> GSHEET_CACHE_TTL_SEC,
   GEMINI_API_KEY |-> TRUE,
   GEMINI_MODEL |-> "models/gemini-1.5-flash"]

\* `const ttlMs = Math.max(1, ENV.GSHEET_CACHE_TTL_SEC) * 1000`
ttlMs == Max(1, ENV.GSHEET_CACHE_TTL_SEC) * 1000

\* the clock when the process starts, later than one TTL after the epoch
StartTime == 2 * Max(1, GSHEET_CACHE_TTL_SEC) * 1000
\* CACHE.data = null, and `let CACHE = { loaded_at: 0, data: null }`
NoData == [tabs |-> 0, rules |-> 0]
EmptyCache == [loaded_at |-> 0, data |-> NoData]

\* a decision of the router; confidence in hundredths; NoDecision for null
Decision(route, confidence, by, question) ==
  [route |-> route, confidence |-> confidence, by |-> by, question |-> question]
NoDecision == Decision("", 0, "", "")
NoQuestion == "null"

\* a response not sent yet
NoResp == [status |-> 0, ok |-> FALSE, decision |-> NoDecision,
           from_cache |-> FALSE, loaded_at |-> 0, data |-> NoData]

\* a request: the endpoint, the text of its body, the position of its
\* handler ("authorize", "tab", "gemini", "done"), the tabs its load has
\* fetched and the version of ROUTING_RULES among them, the configuration its
\* load returned, and its response
NewReq(kind, text) ==
  [kind |-> kind, text |-> text, pc |-> "start", tabs |-> 0, rules |-> 0,
   cfg |-> NoData, from_cache |-> FALSE, resp |-> NoResp]
\* no request answered yet
NoReq == NewReq("", <<>>)

\* the service after start-up, before any request
ServerIdle ==
  /\ ENV = EnvDefault
  /\ CACHE = EmptyCache
  /\ LAST_GEMINI_ROUTER_ERROR = ""
  /\ now = StartTime
  /\ sheet = 1
  /\ reqs = EmptyBag
  /\ nReq = 0
  /\ answered = NoReq

InitConn ==
  /\ wsState = "OPEN"
  /\ streamSid = NoSid
  /\ geminiSession = NoSession
  /\ playQueue = <<>>
  /\ playTimer = NoTimer
  /\ interrupted = FALSE
  /\ liveTimers = {}
  /\ pendingOpen = [o \in Openers |-> 0]
  /\ awaitEnd = 0
  /\ awaitClose = 0
  /\ sessOpen = {}
  /\ nSess = 0
  /\ aiCalls = <<>>
  /\ aiAudio = <<>>
  /\ sent = <<>>
  /\ lastSid = NoMsg
  /\ produced = 0
  /\ discarded = {}
  /\ tornDown = FALSE
  /\ inLog = <<>>
  /\ nAiMsg = 0
  /\ aiFailed = {}
  /\ escaped = FALSE

Init ==
  /\ InitConn
  /\ ServerIdle
  /\ fnOp = NoCall
  /\ fnArg = NoCall
  /\ fnRes = NoCall
  /\ cur = 1
  /\ other = Closure

Ids(q) == {q[i].id : i \in 1..Len(q)}
\* the arrival number of the next transport event
nIn == Len(inLog)

\* ---------------------------------------------------------- playback pump

\* startPlaybackPump: `if (playTimer) return; playTimer = setInterval(...)`
\* the result is <<playTimer, liveTimers>>
NewTimer(live) == CHOOSE t \in 1..(Cardinality(live) + 1) : t \notin live
startPlaybackPump(timer, live) ==
  IF timer # NoTimer THEN <<timer, live>>
  ELSE LET t == NewTimer(live) IN <<t, live \cup {t}>>

\* stopPlaybackPump: `if (playTimer) clearInterval(playTimer); playTimer = null;
\* playQueue = []`; the result is <<playTimer, liveTimers, playQueue>>
\* fault: playTimer is set to null without clearInterval
StopPumpNoClear(timer, live, queue) == <<NoTimer, live, <<>>>>
\* fault: the timer is cancelled but the queue is kept
StopPumpKeepQueue(timer, live, queue) == <<NoTimer, live \ {timer}, queue>>
stopPlaybackPump(timer, live, queue) == <<NoTimer, live \ {timer}, <<>>>>

\* the frames of one part, numbered from `base`:
\* resample to 8k, to mu-law, chunk into TWILIO_FRAME_BYTES
PartFrames(part, base) ==
  LET samples == ResampleLen(part.bytes \div 2, OutRate(part), TWILIO_RATE)
      mu == MulawLen(samples * 2)
      lens == chunkBuffer(mu, TWILIO_FRAME_BYTES)
  IN [k \in 1..Len(lens) |-> [id |-> base + k, len |-> lens[k]]]

\* fault: only the first frame of the chunk is pushed in this run
EnqueueFirstOnly(queue, frames) ==
  IF frames = <<>> THEN queue ELSE Append(queue, Head(frames))
\* fault: unshift instead of push
EnqueueFront(queue, frames) == frames \o queue
\* `for (const f of frames) playQueue.push(f)`
Enqueue(queue, frames) == queue \o frames

\* fault: the frames are pushed and startPlaybackPump() is not called
enqueueNoPump(queue, timer, live, part, base) ==
  <<Enqueue(queue, PartFrames(part, base)), timer, live>>
\* enqueuePcmToTwilio(pcmBuf, pcmRate): push the part's frames, then
\* startPlaybackPump(); the result is <<playQueue, playTimer, liveTimers>>
enqueuePcmToTwilio(queue, timer, live, part, base) ==
  LET pump == startPlaybackPump(timer, live)
  IN <<Enqueue(queue, PartFrames(part, base)), pump[1], pump[2]>>

\* `for (const p of parts) { ... enqueuePcmToTwilio(pcm, outRate) }`
RECURSIVE RecvParts(_, _, _, _, _)
RecvParts(queue, timer, live, parts, base) ==
  IF parts = <<>> THEN <<queue, timer, live>>
  ELSE LET r == enqueuePcmToTwilio(queue, timer, live, Head(parts), base)
       IN RecvParts(r[1], r[2], r[3], Tail(parts), base + Len(r[1]) - Len(queue))

\* fault: pop instead of shift
ShiftLast(queue) == <<queue[Len(queue)], SubSeq(queue, 1, Len(queue) - 1)>>
\* the pacer's dequeue: `const frame = playQueue.shift()`; <<frame, rest>>
Shift(queue) == <<Head(queue), Tail(queue)>>

\* the interval callback without its readyState test
TickIdleQueueOnly == playQueue = <<>>

\* the two early returns of the interval callback
TickIdle == wsState # "OPEN" \/ playQueue = <<>>

\* one tick of the setInterval callback of timer t
Tick(t) ==
  /\ t \in liveTimers
  /\ IF TickIdle
     THEN UNCHANGED vars
     ELSE LET r == Shift(playQueue) IN
          /\ playQueue' = r[2]
          /\ sent' = Append(sent, r[1])
          /\ lastSid' = streamSid
          /\ UNCHANGED <<wsState, streamSid, geminiSession, playTimer,
                         interrupted, liveTimers, pendingOpen, awaitEnd,
                         awaitClose, sessOpen, nSess, aiCalls, aiAudio,
                         produced, discarded, tornDown, inLog, nAiMsg,
                 aiFailed, escaped, outside>>

\* ------------------------------------------------------- AI response loop

\* one iteration of `for await (const msg of geminiSession.receive())` in the
\* receiver task of session s: the barge-in branch, then the audio parts
RecvMsg(s, m) ==
  /\ s \in sessOpen
  /\ nAiMsg < MaxAiMsg
  /\ LET st == IF m.interrupted
               THEN stopPlaybackPump(playTimer, liveTimers, playQueue)
               ELSE <<playTimer, liveTimers, playQueue>>
         r == RecvParts(st[3], st[1], st[2], m.parts, produced)
     IN /\ interrupted' = (interrupted \/ m.interrupted)
        /\ discarded' = IF m.interrupted
                        THEN discarded \cup (Ids(playQueue) \ Ids(st[3]))
                        ELSE discarded
        /\ playQueue' = r[1]
        /\ playTimer' = r[2]
        /\ liveTimers' = r[3]
        /\ produced' = produced + Len(r[1]) - Len(st[3])
  /\ nAiMsg' = nAiMsg + 1
  /\ UNCHANGED <<wsState, streamSid, geminiSession, pendingOpen, awaitEnd,
                 awaitClose, sessOpen, nSess, aiCalls, aiAudio, sent, lastSid,
                 tornDown, inLog,
                 aiFailed, escaped, outside>>

\* the AI service ends the response stream of session s from its side (the
\* stream ends or raises): the for-await loop of its receiver task is left,
\* an error is caught and logged
AiClose(s) ==
  /\ s \in sessOpen
  /\ sessOpen' = sessOpen \ {s}
  /\ UNCHANGED <<wsState, streamSid, geminiSession, playQueue, playTimer,
                 interrupted, liveTimers, pendingOpen, awaitEnd, awaitClose,
                 nSess, aiCalls, aiAudio, sent, lastSid, produced, discarded,
                 tornDown, inLog, nAiMsg,
                 aiFailed, escaped, outside>>

\* ------------------------------------------------------------ start / open

\* ws.on("message"), event "start", up to `await createGeminiLiveSession()`
StartEvent(m) ==
  /\ wsState = "OPEN"
  /\ nIn < MaxIn
  /\ inLog' = Append(inLog, "start")
  /\ streamSid' = m.sid
  /\ pendingOpen' = [pendingOpen EXCEPT ![m.opener] = @ + 1]
  /\ UNCHANGED <<wsState, geminiSession, playQueue, playTimer, interrupted,
                 liveTimers, awaitEnd, awaitClose, sessOpen, nSess, aiCalls,
                 aiAudio, sent, lastSid, produced, discarded, tornDown,
                 nAiMsg,
                 aiFailed, escaped, outside>>

\* fault: the opening text is not sent
OpenResolveNoText(opener) ==
  /\ pendingOpen[opener] > 0
  /\ pendingOpen' = [pendingOpen EXCEPT ![opener] = @ - 1]
  /\ nSess' = nSess + 1
  /\ geminiSession' = nSess + 1
  /\ sessOpen' = sessOpen \cup {nSess + 1}
  /\ aiCalls' = Append(aiCalls, [text |-> <<>>, end |-> 0, close |-> 0])
  /\ UNCHANGED <<wsState, streamSid, playQueue, playTimer, interrupted,
                 liveTimers, awaitEnd, awaitClose, aiAudio, sent, lastSid,
                 produced, discarded, tornDown, inLog, nAiMsg,
                 aiFailed, escaped, outside>>

\* startGemini resumed with an opened session: assign the handle, start the
\* receiver task, send the opening text.  What follows the last await only logs.
OpenResolve(opener) ==
  /\ pendingOpen[opener] > 0
  /\ pendingOpen' = [pendingOpen EXCEPT ![opener] = @ - 1]
  /\ nSess' = nSess + 1
  /\ geminiSession' = nSess + 1
  /\ sessOpen' = sessOpen \cup {nSess + 1}
  /\ aiCalls' = Append(aiCalls, [text |-> <<opener>>, end |-> 0, close |-> 0])
  /\ UNCHANGED <<wsState, streamSid, playQueue, playTimer, interrupted,
                 liveTimers, awaitEnd, awaitClose, aiAudio, sent, lastSid,
                 produced, discarded, tornDown, inLog, nAiMsg,
                 aiFailed, escaped, outside>>

\* fault: the failed open closes the transport
OpenFailClosesTransport(opener) ==
  /\ pendingOpen[opener] > 0
  /\ pendingOpen' = [pendingOpen EXCEPT ![opener] = @ - 1]
  /\ wsState' = "CLOSED"
  /\ UNCHANGED <<streamSid, geminiSession, playQueue, playTimer, interrupted,
                 liveTimers, awaitEnd, awaitClose, sessOpen, nSess, aiCalls,
                 aiAudio, sent, lastSid, produced, discarded, tornDown, inLog,
                 nAiMsg,
                 aiFailed, escaped, outside>>

\* createGeminiLiveSession rejected (missing key, connect failure): the start
\* handler's catch logs it
OpenFail(opener) ==
  /\ pendingOpen[opener] > 0
  /\ pendingOpen' = [pendingOpen EXCEPT ![opener] = @ - 1]
  /\ UNCHANGED <<wsState, streamSid, geminiSession, playQueue, playTimer,
                 interrupted, liveTimers, awaitEnd, awaitClose, sessOpen,
                 nSess, aiCalls, aiAudio, sent, lastSid, produced, discarded,
                 tornDown, inLog, nAiMsg,
                 aiFailed, escaped, outside>>

\* ------------------------------------------------------------------- media

\* fault: the send of a later frame overtakes the earlier ones
ForwardAudioFirst(audio, s, id) == <<[s |-> s, id |-> id]>> \o audio
\* `await geminiSession.sendRealtimeInput({audio: ...})`: the call is issued
\* inside the handler's synchronous run
ForwardAudio(audio, s, id) == Append(audio, [s |-> s, id |-> id])

\* fault: the session test inverted
MediaGuardInverted(session, hasPayload) == session = NoSession /\ hasPayload
\* `if (!geminiSession) return; ... if (!b64) return;`
MediaGuard(session, hasPayload) == session # NoSession /\ hasPayload

\* fault: the catch of a failed send drops the session handle
SendFailedDropsSession(session) == NoSession
\* `catch (e) { logWarn(...) }` around the audio send: the handle after a
\* rejected send
SendFailed(session) == session

\* ws.on("message"), event "media".  The send is issued inside the handler's
\* synchronous run; the adapter resolves or rejects it (ok), a rejection is
\* caught and logged.
MediaEvent(hasPayload) ==
  /\ wsState = "OPEN"
  /\ nIn < MaxIn
  /\ inLog' = Append(inLog, IF hasPayload THEN "media" ELSE "empty")
  /\ IF MediaGuard(geminiSession, hasPayload)
     THEN /\ aiAudio' = ForwardAudio(aiAudio, geminiSession, nIn + 1)
          /\ \E ok \in BOOLEAN :
               /\ aiFailed' = IF ok THEN aiFailed ELSE aiFailed \cup {nIn + 1}
               /\ geminiSession' = IF ok THEN geminiSession
                                   ELSE SendFailed(geminiSession)
     ELSE UNCHANGED <<aiAudio, aiFailed, geminiSession>>
  /\ UNCHANGED <<wsState, streamSid, playQueue, playTimer, interrupted,
                 liveTimers, pendingOpen, awaitEnd, awaitClose, sessOpen,
                 nSess, aiCalls, sent, lastSid, produced, discarded, tornDown,
                 nAiMsg, escaped, outside>>

\* ------------------------------------------------- other transport messages

\* fault: a message that does not parse closes the transport
BadJsonClosesTransport ==
  /\ wsState = "OPEN"
  /\ nIn < MaxIn
  /\ inLog' = Append(inLog, "garbage")
  /\ wsState' = "CLOSED"
  /\ UNCHANGED <<streamSid, geminiSession, playQueue, playTimer, interrupted,
                 liveTimers, pendingOpen, awaitEnd, awaitClose, sessOpen,
                 nSess, aiCalls, aiAudio, sent, lastSid, produced, discarded,
                 tornDown, nAiMsg, aiFailed, escaped, outside>>
\* ws.on("message") with data that is not JSON: JSON.parse throws,
\* `catch { return; }`
BadJson ==
  /\ wsState = "OPEN"
  /\ nIn < MaxIn
  /\ inLog' = Append(inLog, "garbage")
  /\ UNCHANGED <<wsState, streamSid, geminiSession, playQueue, playTimer,
                 interrupted, liveTimers, pendingOpen, awaitEnd, awaitClose,
                 sessOpen, nSess, aiCalls, aiAudio, sent, lastSid, produced,
                 discarded, tornDown, nAiMsg, aiFailed, escaped, outside>>

\* the values JSON.parse returns that are no start, media or stop message: the
\* literal null, and an object with another `event` ("connected", "mark")
OtherJson == {"null", "other"}

\* ws.on("message") with such a value.  `msg.event` is read outside the
\* try block: on null it throws a TypeError, which rejects the promise of the
\* async handler; nothing handles that rejection.  On an object no branch
\* matches and the handler returns.
OtherEvent(json) ==
  /\ wsState = "OPEN"
  /\ nIn < MaxIn
  /\ inLog' = Append(inLog, json)
  /\ escaped' = (escaped \/ json = "null")
  /\ UNCHANGED <<wsState, streamSid, geminiSession, playQueue, playTimer,
                 interrupted, liveTimers, pendingOpen, awaitEnd, awaitClose,
                 sessOpen, nSess, aiCalls, aiAudio, sent, lastSid, produced,
                 discarded, tornDown, nAiMsg, aiFailed, outside>>

\* ---------------------------------------------------------------- teardown

\* closeAll up to its first await: stopPlaybackPump(); with a session held,
\* sendRealtimeInput({audioStreamEnd: true}) is issued and awaited; without
\* one the finally block runs at once
CloseAllBegin ==
  LET st == stopPlaybackPump(playTimer, liveTimers, playQueue) IN
  /\ playTimer' = st[1]
  /\ liveTimers' = st[2]
  /\ playQueue' = st[3]
  /\ discarded' = discarded \cup (Ids(playQueue) \ Ids(st[3]))
  /\ IF geminiSession # NoSession
     THEN /\ aiCalls' = [aiCalls EXCEPT ![geminiSession].end = @ + 1]
          /\ awaitEnd' = awaitEnd + 1
          /\ UNCHANGED <<geminiSession, tornDown>>
     ELSE /\ geminiSession' = NoSession
          /\ tornDown' = TRUE
          /\ UNCHANGED <<aiCalls, awaitEnd>>
  /\ UNCHANGED <<streamSid, interrupted, pendingOpen, awaitClose, sessOpen,
                 nSess, aiAudio, sent, lastSid, produced, nAiMsg,
                 aiFailed, escaped, outside>>

\* closeAll resumed after the end-of-input await (resolved or rejected, the
\* catch is empty): `await geminiSession.close()` reads the handle again; on
\* null the TypeError is swallowed and the finally block runs
CloseAllAfterEnd ==
  /\ awaitEnd > 0
  /\ awaitEnd' = awaitEnd - 1
  /\ IF geminiSession # NoSession
     THEN /\ aiCalls' = [aiCalls EXCEPT ![geminiSession].close = @ + 1]
          /\ sessOpen' = sessOpen \ {geminiSession}
          /\ awaitClose' = awaitClose + 1
          /\ UNCHANGED <<geminiSession, tornDown>>
     ELSE /\ geminiSession' = NoSession
          /\ tornDown' = TRUE
          /\ UNCHANGED <<aiCalls, sessOpen, awaitClose>>
  /\ UNCHANGED <<wsState, streamSid, playQueue, playTimer, interrupted,
                 liveTimers, pendingOpen, nSess, aiAudio, sent, lastSid,
                 produced, discarded, inLog, nAiMsg,
                 aiFailed, escaped, outside>>

\* closeAll resumed after the close await: `finally { geminiSession = null;
\* geminiReceiverTask = null; }`
CloseAllAfterClose ==
  /\ awaitClose > 0
  /\ awaitClose' = awaitClose - 1
  /\ geminiSession' = NoSession
  /\ tornDown' = TRUE
  /\ UNCHANGED <<wsState, streamSid, playQueue, playTimer, interrupted,
                 liveTimers, pendingOpen, awaitEnd, sessOpen, nSess, aiCalls,
                 aiAudio, sent, lastSid, produced, discarded, inLog, nAiMsg,
                 aiFailed, escaped, outside>>

\* ws.on("message"), event "stop"
StopEvent ==
  /\ wsState = "OPEN"
  /\ nIn < MaxIn
  /\ inLog' = Append(inLog, "stop")
  /\ CloseAllBegin
  /\ UNCHANGED wsState

\* ws.on("close")
CloseEvent ==
  /\ wsState # "CLOSED"
  /\ nIn < MaxIn
  /\ inLog' = Append(inLog, "close")
  /\ wsState' = "CLOSED"
  /\ CloseAllBegin

\* ws.on("error"): the socket is closing when the handler runs
ErrorEvent ==
  /\ wsState # "CLOSED"
  /\ nIn < MaxIn
  /\ inLog' = Append(inLog, "error")
  /\ wsState' = "CLOSING"
  /\ CloseAllBegin

\* --------------------------------------------------------- specification

\* what happens on a connection once the `start` message is in
AfterStart ==
  \/ \E o \in Openers : OpenResolve(o)
  \/ \E o \in Openers : OpenFail(o)
  \/ \E b \in BOOLEAN : MediaEvent(b)
  \/ CloseEvent
  \/ ErrorEvent
  \/ StopEvent
  \/ CloseAllAfterEnd
  \/ CloseAllAfterClose
  \/ \E s \in sessOpen, m \in AiMsgs : RecvMsg(s, m)
  \/ \E s \in sessOpen : AiClose(s)
  \/ \E t \in liveTimers : Tick(t)
  \/ BadJson
  \/ \E j \in OtherJson : OtherEvent(j)

Next ==
  \/ \E m \in StartMsgs : StartEvent(m)
  \/ AfterStart

Spec == Init /\ [][Next]_vars

\* ------------------------------------------------------- two connections

\* fault: playQueue declared at module level, one queue for all connections
SwitchSharedQueue ==
  /\ cur' = 3 - cur
  /\ other' = Closure
  /\ wsState' = other.wsState
  /\ streamSid' = other.streamSid
  /\ geminiSession' = other.geminiSession
  /\ playQueue' = playQueue
  /\ playTimer' = other.playTimer
  /\ interrupted' = other.interrupted
  /\ liveTimers' = other.liveTimers
  /\ pendingOpen' = other.pendingOpen
  /\ awaitEnd' = other.awaitEnd
  /\ awaitClose' = other.awaitClose
  /\ sessOpen' = other.sessOpen
  /\ nSess' = other.nSess
  /\ aiCalls' = other.aiCalls
  /\ aiAudio' = other.aiAudio
  /\ sent' = other.sent
  /\ lastSid' = other.lastSid
  /\ produced' = other.produced
  /\ discarded' = other.discarded
  /\ tornDown' = other.tornDown
  /\ inLog' = other.inLog
  /\ nAiMsg' = other.nAiMsg
  /\ aiFailed' = other.aiFailed
  /\ escaped' = other.escaped
  /\ UNCHANGED <<fnVars, srvVars>>
\* the event loop turns to a handler of the other connection: each connection
\* runs the callback of wss.on("connection") once and its handlers refer to
\* the variables of that run
Switch ==
  /\ cur' = 3 - cur
  /\ other' = Closure
  /\ wsState' = other.wsState
  /\ streamSid' = other.streamSid
  /\ geminiSession' = other.geminiSession
  /\ playQueue' = other.playQueue
  /\ playTimer' = other.playTimer
  /\ interrupted' = other.interrupted
  /\ liveTimers' = other.liveTimers
  /\ pendingOpen' = other.pendingOpen
  /\ awaitEnd' = other.awaitEnd
  /\ awaitClose' = other.awaitClose
  /\ sessOpen' = other.sessOpen
  /\ nSess' = other.nSess
  /\ aiCalls' = other.aiCalls
  /\ aiAudio' = other.aiAudio
  /\ sent' = other.sent
  /\ lastSid' = other.lastSid
  /\ produced' = other.produced
  /\ discarded' = other.discarded
  /\ tornDown' = other.tornDown
  /\ inLog' = other.inLog
  /\ nAiMsg' = other.nAiMsg
  /\ aiFailed' = other.aiFailed
  /\ escaped' = other.escaped
  /\ UNCHANGED <<fnVars, srvVars>>

\* transport events handled on the two connections together
MaxTwoIn == MaxIn - 1
\* the events handled on the two connections together stay within the bounds
BudgetIn == Len(inLog) + Len(other.inLog) < MaxTwoIn
BudgetAi == nAiMsg + other.nAiMsg < MaxAiMsg

NextTwo ==
  \/ Switch
  \/ BudgetIn /\ \E m \in StartMsgs : StartEvent(m)
  \/ \E o \in Openers : OpenResolve(o)
  \/ \E o \in Openers : OpenFail(o)
  \/ BudgetIn /\ \E b \in BOOLEAN : MediaEvent(b)
  \/ BudgetIn /\ CloseEvent
  \/ BudgetIn /\ ErrorEvent
  \/ BudgetIn /\ StopEvent
  \/ CloseAllAfterEnd
  \/ CloseAllAfterClose
  \/ BudgetAi /\ \E s \in sessOpen, m \in AiMsgs : RecvMsg(s, m)
  \/ \E s \in sessOpen : AiClose(s)
  \/ \E t \in liveTimers : Tick(t)
  \/ BudgetIn /\ BadJson
  \/ BudgetIn /\ \E j \in OtherJson : OtherEvent(j)

\* two connections served at once
SpecTwo == Init /\ [][NextTwo]_vars

\* -------------------------------------------------------- opening texts

\* `start` messages with and without customParameters.opening_text
StartMsgsOpeners == { [sid |-> "SX1", opener |-> o] : o \in Openers }
\* transport events handled when the starts differ
MaxOpenersIn == MaxIn - 1
BudgetOpeners == nIn < MaxOpenersIn

NextOpeners ==
  \/ BudgetOpeners /\ \E m \in StartMsgsOpeners : StartEvent(m)
  \/ \E o \in Openers : OpenResolve(o)
  \/ \E o \in Openers : OpenFail(o)
  \/ BudgetOpeners /\ \E b \in BOOLEAN : MediaEvent(b)
  \/ BudgetOpeners /\ CloseEvent
  \/ BudgetOpeners /\ ErrorEvent
  \/ BudgetOpeners /\ StopEvent
  \/ CloseAllAfterEnd
  \/ CloseAllAfterClose
  \/ \E s \in sessOpen, m \in AiMsgs : RecvMsg(s, m)
  \/ \E s \in sessOpen : AiClose(s)
  \/ \E t \in liveTimers : Tick(t)
  \/ BudgetOpeners /\ BadJson
  \/ BudgetOpeners /\ \E j \in OtherJson : OtherEvent(j)

\* the connection under `start` messages of either kind
SpecOpeners == Init /\ [][NextOpeners]_vars

\* setInterval runs the callback of an armed timer every TWILIO_FRAME_MS until
\* clearInterval: a tick that stays possible is eventually taken
PacerTick == \E t \in liveTimers : Tick(t)

\* the connection of Spec with one transport event less
NextPaced ==
  \/ BudgetOpeners /\ \E m \in StartMsgs : StartEvent(m)
  \/ \E o \in Openers : OpenResolve(o)
  \/ \E o \in Openers : OpenFail(o)
  \/ BudgetOpeners /\ \E b \in BOOLEAN : MediaEvent(b)
  \/ BudgetOpeners /\ CloseEvent
  \/ BudgetOpeners /\ ErrorEvent
  \/ BudgetOpeners /\ StopEvent
  \/ CloseAllAfterEnd
  \/ CloseAllAfterClose
  \/ \E s \in sessOpen, m \in AiMsgs : RecvMsg(s, m)
  \/ \E s \in sessOpen : AiClose(s)
  \/ PacerTick
  \/ BudgetOpeners /\ BadJson
  \/ BudgetOpeners /\ \E j \in OtherJson : OtherEvent(j)

\* that connection with fair pacer ticks
SpecFair == Init /\ [][NextPaced]_vars /\ WF_vars(PacerTick)

\* ------------------------------------------------------ helpers on their own

\* the codec applied to every sample and every byte
InitCodec ==
  /\ InitConn
  /\ ServerIdle
  /\ cur = 1
  /\ other = Closure
  /\ fnOp = NoCall
  /\ fnArg \in Int16
  /\ fnRes = NoCall

Encode ==
  /\ fnOp = NoCall
  /\ fnOp' = "encode"
  /\ fnRes' = linearToMulawSample(fnArg)
  /\ UNCHANGED <<fnArg, connVars, other, cur, srvVars>>

Decode ==
  /\ fnOp = NoCall
  /\ fnArg \in 0..255
  /\ fnOp' = "decode"
  /\ fnRes' = mulawToLinearSample(fnArg)
  /\ UNCHANGED <<fnArg, connVars, other, cur, srvVars>>

\* the byte that a sample encodes to, decoded
DecodeEncoded ==
  /\ fnOp = "encode"
  /\ fnOp' = "encode-decode"
  /\ fnRes' = mulawToLinearSample(fnRes)
  /\ UNCHANGED <<fnArg, connVars, other, cur, srvVars>>

\* the sample that a byte decodes to, encoded
EncodeDecoded ==
  /\ fnOp = "decode"
  /\ fnOp' = "decode-encode"
  /\ fnRes' = linearToMulawSample(fnRes)
  /\ UNCHANGED <<fnArg, connVars, other, cur, srvVars>>

NextCodec == Encode \/ Decode \/ DecodeEncoded \/ EncodeDecoded

SpecCodec == InitCodec /\ [][NextCodec]_vars

\* the resampler applied to short buffers
MaxBuf == 3
Samples == {Int16Min, -3, 0, 5, Int16Max}
Rates == {TWILIO_RATE, GEMINI_IN_RATE, GEMINI_OUT_RATE_DEFAULT}
RECURSIVE SeqsUpTo(_, _)
SeqsUpTo(S, n) ==
  IF n = 0 THEN {<<>>}
  ELSE LET shorter == SeqsUpTo(S, n - 1)
       IN shorter \cup {Append(q, x) : q \in {r \in shorter : Len(r) = n - 1}, x \in S}

InitResample ==
  /\ InitConn
  /\ ServerIdle
  /\ cur = 1
  /\ other = Closure
  /\ fnOp = NoCall
  /\ fnArg \in [buf : SeqsUpTo(Samples, MaxBuf), inRate : Rates, outRate : Rates]
  /\ fnRes = NoCall

Resample ==
  /\ fnOp = NoCall
  /\ fnOp' = "resample"
  /\ fnRes' = resamplePcm16Linear(fnArg.buf, fnArg.inRate, fnArg.outRate)
  /\ UNCHANGED <<fnArg, connVars, other, cur, srvVars>>

NextResample == Resample

SpecResample == InitResample /\ [][NextResample]_vars

\* chunkBuffer applied to short buffers
MaxChunkLen == 5
MaxChunkBytes == 3
ByteVals == {0, 7, 255}

InitChunk ==
  /\ InitConn
  /\ ServerIdle
  /\ cur = 1
  /\ other = Closure
  /\ fnOp = NoCall
  /\ fnArg \in [buf : SeqsUpTo(ByteVals, MaxChunkLen), n : 1..MaxChunkBytes]
  /\ fnRes = NoCall

Chunk ==
  /\ fnOp = NoCall
  /\ fnOp' = "chunk"
  /\ fnRes' = chunkSlices(fnArg.buf, fnArg.n)
  /\ UNCHANGED <<fnArg, connVars, other, cur, srvVars>>

NextChunk == Chunk

SpecChunk == InitChunk /\ [][NextChunk]_vars

\* the inbound pipeline applied to short payloads and to whole 20 ms frames
MaxPayload == 3
PayloadBytes == {0, 7, 128, 255}
TwilioFrames ==
  {[i \in 1..TWILIO_FRAME_BYTES |-> b] : b \in PayloadBytes}
    \cup {[i \in 1..TWILIO_FRAME_BYTES |-> (i * 37) % 256]}

InitInbound ==
  /\ InitConn
  /\ ServerIdle
  /\ cur = 1
  /\ other = Closure
  /\ fnOp = NoCall
  /\ fnArg \in (SeqsUpTo(PayloadBytes, MaxPayload) \ {<<>>}) \cup TwilioFrames
  /\ fnRes = NoCall

Inbound ==
  /\ fnOp = NoCall
  /\ fnOp' = "inbound"
  /\ fnRes' = InboundPcm(fnArg)
  /\ UNCHANGED <<fnArg, connVars, other, cur, srvVars>>

NextInbound == Inbound

SpecInbound == InitInbound /\ [][NextInbound]_vars

\* ------------------------------------- server.js: config and router service

\* bounds of the service: requests received, steps of the clock
MaxReq == 2
MaxTicks == 2
\* the clock advances by half a TTL
ClockStep == (Max(1, GSHEET_CACHE_TTL_SEC) * 1000) \div 2

\* the environments the process may be started in: the default, and one with
\* each variable that a load or a Gemini call tests missing or invalid
Envs ==
  { EnvDefault,
    [EnvDefault EXCEPT !.GSHEET_ID = FALSE],
    [EnvDefault EXCEPT !.GOOGLE_SERVICE_ACCOUNT_JSON = FALSE],
    [EnvDefault EXCEPT !.GEMINI_API_KEY = FALSE],
    [EnvDefault EXCEPT !.GEMINI_MODEL = "gemini-1.5-flash"] }

\* `const tabs = [...]` of loadConfigFromSheet
Tabs == <<"SETTINGS", "BUSINESS_INFO", "ROUTING_RULES", "SALES_SCRIPT",
          "SUPPORT_SCRIPT", "SUPPLIERS", "MAKE_PAYLOADS_SPEC", "PROMPTS">>

\* the ROUTING_RULES rows of the two versions of the spreadsheet; a text is
\* the sequence of its normalised words, a keyword one word
Rule(priority, route, keywords, question) ==
  [priority |-> priority, route |-> route, keywords |-> keywords,
   question_if_ambiguous |-> question]
RoutingRules(version) ==
  IF version = 1
  THEN << Rule(1, "support", <<"broken", "buy">>, ""),
          Rule(2, "sales", <<"buy">>, ""),
          Rule(0, "ambiguous", <<>>, "sales or support?") >>
  ELSE IF version = 2
  THEN << Rule(1, "support", <<"broken">>, "how can we help?"),
          Rule(3, "", <<"buy">>, "") >>
  ELSE <<>>
Texts == { <<>>, <<"buy">> }

\* `.sort((a, b) => b.priority - a.priority)`: by priority, highest first,
\* rows of equal priority in their order
RECURSIVE SortByPriority(_)
SortByPriority(list) ==
  IF list = <<>> THEN <<>>
  ELSE LET top == CHOOSE i \in 1..Len(list) :
                    /\ \A j \in 1..Len(list) : list[j].priority <= list[i].priority
                    /\ \A j \in 1..(i - 1) : list[j].priority < list[i].priority
       IN <<list[top]>>
            \o SortByPriority(SubSeq(list, 1, top - 1) \o SubSeq(list, top + 1, Len(list)))

\* `t.includes(normalizeText(kw))` for some keyword of the rule
RuleMatches(rule, text) ==
  \E k \in 1..Len(rule.keywords) : \E w \in 1..Len(text) : text[w] = rule.keywords[k]

RECURSIVE FirstMatch(_, _)
FirstMatch(list, text) ==
  IF list = <<>> THEN NoDecision
  ELSE IF RuleMatches(Head(list), text)
       THEN Decision(Head(list).route, 100, "sheet_keywords",
                     IF Head(list).question_if_ambiguous = "" THEN NoQuestion
                     ELSE Head(list).question_if_ambiguous)
       ELSE FirstMatch(Tail(list), text)

\* routeByKeywords(text, rules)
routeByKeywords(text, rules) ==
  IF text = <<>> THEN NoDecision
  ELSE FirstMatch(
         SortByPriority(SelectSeq(rules, LAMBDA r : r.route # "" /\ r.keywords # <<>>)),
         text)

\* getAmbiguousQuestionFromSheet(rules)
getAmbiguousQuestionFromSheet(rules) ==
  LET list == SortByPriority(SelectSeq(rules, LAMBDA r : r.question_if_ambiguous # ""))
      amb == SelectSeq(list, LAMBDA r : r.route = "ambiguous")
  IN IF amb # <<>> THEN amb[1].question_if_ambiguous
     ELSE IF list # <<>> THEN list[1].question_if_ambiguous
     ELSE ""

\* what the fetch of geminiRoute comes back with: the request aborted by the
\* timeout, an HTTP error status, a body that is not JSON, a
\* candidate text that is not JSON, and candidate texts that parse
Reply(kind, route, confidence) ==
  [kind |-> kind, route |-> route, confidence |-> confidence]
GeminiReplies ==
  { Reply("abort", "", 0), Reply("http", "", 0),
    Reply("not_json", "", 0), Reply("inner_not_json", "", 0),
    Reply("json", "refund", 50), Reply("json", "sales", 90),
    Reply("json", "ambiguous", 150) }

\* the synchronous tests at the head of geminiRoute: the message thrown, "" if
\* none
GeminiPrecheck ==
  IF ~ENV.GEMINI_API_KEY THEN "GEMINI_API_KEY missing"
  ELSE IF ENV.GEMINI_MODEL \notin {"models/gemini-1.5-flash"} THEN "GEMINI_MODEL invalid"
  ELSE ""

\* geminiRoute after its fetch: the message thrown, "" if it returns
GeminiError(reply) ==
  IF reply.kind = "abort" THEN "Gemini timeout"
  ELSE IF reply.kind = "http" THEN "Gemini HTTP"
  ELSE IF reply.kind = "not_json" THEN "Gemini response not JSON (outer)"
  ELSE IF reply.kind = "inner_not_json" THEN "Gemini inner JSON parse failed"
  ELSE IF reply.route \notin {"sales", "support", "ambiguous"}
       THEN "Gemini returned invalid route"
  ELSE ""

\* the responses of the two endpoints
\* `res.status(500).json({ ok: false, error: e.message })`
Resp500 == [NoResp EXCEPT !.status = 500]
\* `res.json({ ok: true, decision })`
RespDecision(decision) ==
  [NoResp EXCEPT !.status = 200, !.ok = TRUE, !.decision = decision]
\* fault: a failed Gemini call is answered with an error response
GeminiFailedAsError == Resp500
\* the response of the catch around the Gemini fallback
GeminiFailed == RespDecision(Decision("unknown", 0, "gemini_failed", NoQuestion))
\* the decision built from what geminiRoute returns
GeminiDecision(reply, rules) ==
  Decision(reply.route, Max(0, Min(100, reply.confidence)), "gemini",
           IF reply.route = "ambiguous" /\ getAmbiguousQuestionFromSheet(rules) # ""
           THEN getAmbiguousQuestionFromSheet(rules) ELSE NoQuestion)
\* the response of /config-check
RespConfig(fromCache, loadedAt, data) ==
  [NoResp EXCEPT !.status = 200, !.ok = TRUE, !.from_cache = fromCache,
                 !.loaded_at = loadedAt, !.data = data]

Kinds == {"route", "config-check"}

\* `const fresh = Date.now() - CACHE.loaded_at < ttlMs`
Fresh == now - CACHE.loaded_at < ttlMs
\* `if (!force && CACHE.data && fresh)`
CacheHit(force) == ~force /\ CACHE.data # NoData /\ Fresh

\* the requests in flight without the one whose handler runs
Without(bag, r) == bag (-) SetToBag({r})

\* the handler of request r, the others in flight being rest: it suspends
\* in its next await
Suspend(rest, r) ==
  /\ reqs' = rest (+) SetToBag({r})
  /\ UNCHANGED answered

\* the handler of request r, the others in flight being rest: the response is
\* sent; of the request answered, the endpoint, the text, the configuration
\* its load returned and the response are kept
Answer(rest, r, resp) ==
  /\ reqs' = rest
  /\ answered' = [r EXCEPT !.pc = "done", !.tabs = 0, !.rules = 0, !.resp = resp]

\* the handler of request r, resumed with the configuration that
\* loadConfigFromSheet returned, up to its response or its next await
Loaded(rest, r, data, fromCache, loadedAt) ==
  LET rc == [r EXCEPT !.cfg = data, !.from_cache = fromCache] IN
  IF r.kind = "config-check"
  THEN /\ Answer(rest, rc, RespConfig(fromCache, loadedAt, data))
       /\ UNCHANGED LAST_GEMINI_ROUTER_ERROR
  ELSE LET bySheet == routeByKeywords(r.text, RoutingRules(data.rules)) IN
       IF bySheet # NoDecision
       THEN /\ Answer(rest, rc, RespDecision(bySheet))
            /\ UNCHANGED LAST_GEMINI_ROUTER_ERROR
       ELSE IF GeminiPrecheck # ""
       THEN /\ Answer(rest, rc, GeminiFailed)
            /\ LAST_GEMINI_ROUTER_ERROR' = GeminiPrecheck
       ELSE /\ Suspend(rest, [rc EXCEPT !.pc = "gemini"])
            /\ LAST_GEMINI_ROUTER_ERROR' = ""

\* app.get("/config-check") and app.post("/route") up to the first await that
\* suspends: loadConfigFromSheet(force) returns from the cache, or throws
\* before its first await, or awaits auth.authorize()
Request(kind, text) ==
  /\ nReq < MaxReq
  /\ nReq' = nReq + 1
  /\ LET r == NewReq(kind, text)
     IN IF CacheHit(kind = "config-check")
        THEN Loaded(reqs, r, CACHE.data, TRUE, CACHE.loaded_at)
        ELSE /\ IF ~ENV.GSHEET_ID \/ ~ENV.GOOGLE_SERVICE_ACCOUNT_JSON
                THEN Answer(reqs, r, Resp500)
                ELSE Suspend(reqs, [r EXCEPT !.pc = "authorize"])
             /\ UNCHANGED LAST_GEMINI_ROUTER_ERROR
  /\ UNCHANGED <<ENV, CACHE, now, sheet, connVars, fnVars, other, cur>>

\* `await auth.authorize()` settles for request r: the first tab fetch is
\* issued, or the rejection reaches the handler's catch
AuthorizeDone(r, ok) ==
  /\ r.pc = "authorize"
  /\ IF ok
     THEN Suspend(Without(reqs, r), [r EXCEPT !.pc = "tab"])
     ELSE Answer(Without(reqs, r), r, Resp500)
  /\ UNCHANGED <<ENV, CACHE, LAST_GEMINI_ROUTER_ERROR, now, sheet, nReq,
                 connVars, fnVars, other, cur>>

\* fault: CACHE is assigned as the tabs arrive
CacheAfterTabEager(data, done) == [loaded_at |-> now, data |-> data]
\* CACHE after the fetch of a tab: assigned once, behind the loop over the tabs
CacheAfterTab(data, done) ==
  IF done THEN [loaded_at |-> now, data |-> data] ELSE CACHE

\* `results[tab] = await fetchSheetTab(...)` settles for request r: the next
\* tab is fetched; behind the last one cfg is built, CACHE is replaced and the
\* handler goes on with the configuration; a rejection reaches the handler's
\* catch
TabDone(r, ok) ==
  /\ r.pc = "tab"
  /\ IF ok
     THEN LET n == r.tabs + 1
              rn == [r EXCEPT !.tabs = n,
                              !.rules = IF Tabs[n] = "ROUTING_RULES" THEN sheet ELSE @]
              data == [tabs |-> n, rules |-> rn.rules]
          IN /\ CACHE' = CacheAfterTab(data, n = Len(Tabs))
             /\ IF n < Len(Tabs)
                THEN /\ Suspend(Without(reqs, r), rn)
                     /\ UNCHANGED LAST_GEMINI_ROUTER_ERROR
                ELSE Loaded(Without(reqs, r), rn, data, FALSE, now)
     ELSE /\ Answer(Without(reqs, r), r, Resp500)
          /\ UNCHANGED <<CACHE, LAST_GEMINI_ROUTER_ERROR>>
  /\ UNCHANGED <<ENV, now, sheet, nReq, connVars, fnVars, other, cur>>

\* the fetch of geminiRoute settles for request r
GeminiDone(r, reply) ==
  /\ r.pc = "gemini"
  /\ IF GeminiError(reply) # ""
     THEN /\ LAST_GEMINI_ROUTER_ERROR' = GeminiError(reply)
          /\ Answer(Without(reqs, r), r, GeminiFailed)
     ELSE /\ UNCHANGED LAST_GEMINI_ROUTER_ERROR
          /\ Answer(Without(reqs, r), r,
                    RespDecision(GeminiDecision(reply, RoutingRules(r.cfg.rules))))
  /\ UNCHANGED <<ENV, CACHE, now, sheet, nReq, connVars, fnVars, other, cur>>

\* time passes
ClockTick ==
  /\ now < StartTime + MaxTicks * ClockStep
  /\ now' = now + ClockStep
  /\ UNCHANGED <<ENV, CACHE, LAST_GEMINI_ROUTER_ERROR, sheet, reqs, nReq,
                 answered, connVars, fnVars, other, cur>>

\* the owner edits the spreadsheet
SheetEdit ==
  /\ sheet = 1
  /\ sheet' = 2
  /\ UNCHANGED <<ENV, CACHE, LAST_GEMINI_ROUTER_ERROR, now, reqs, nReq,
                 answered, connVars, fnVars, other, cur>>

InitServer ==
  /\ InitConn
  /\ fnOp = NoCall
  /\ fnArg = NoCall
  /\ fnRes = NoCall
  /\ cur = 1
  /\ other = Closure
  /\ ENV \in Envs
  /\ CACHE = EmptyCache
  /\ LAST_GEMINI_ROUTER_ERROR = ""
  /\ now = StartTime
  /\ sheet = 1
  /\ reqs = EmptyBag
  /\ nReq = 0
  /\ answered = NoReq

RequestArrives == \E k \in Kinds, t \in Texts : Request(k, t)
AuthorizeSettles == \E r \in BagToSet(reqs), ok \in BOOLEAN : AuthorizeDone(r, ok)
TabSettles == \E r \in BagToSet(reqs), ok \in BOOLEAN : TabDone(r, ok)
GeminiSettles == \E r \in BagToSet(reqs), reply \in GeminiReplies : GeminiDone(r, reply)

NextServer ==
  \/ RequestArrives
  \/ AuthorizeSettles
  \/ TabSettles
  \/ GeminiSettles
  \/ ClockTick
  \/ SheetEdit

SpecServer == InitServer /\ [][NextServer]_vars

\* every shape of `start` message: with or without start.streamSid, with or
\* without customParameters.opening_text
StartMsgsAll == { [sid |-> s, opener |-> o] : s \in Sids \cup {NoSid}, o \in Openers }

NextStarts ==
  \/ \E m \in StartMsgsAll : StartEvent(m)
  \/ AfterStart

\* the connection under every shape of `start` message
SpecStarts == Init /\ [][NextStarts]_vars

TypeOK ==
  /\ wsState \in {"OPEN", "CLOSING", "CLOSED"}
  /\ streamSid \in Sids \cup {NoSid}
  /\ geminiSession \in 0..nSess
  /\ playTimer \in {NoTimer} \cup liveTimers
  /\ interrupted \in BOOLEAN
  /\ sessOpen \subseteq 1..nSess
  /\ nSess <= nIn
  /\ nIn <= MaxIn /\ nAiMsg <= MaxAiMsg
  /\ tornDown \in BOOLEAN
  /\ aiFailed \subseteq 1..nIn
  /\ escaped \in BOOLEAN

\* ------------------------------------------------------------ properties

Range(q) == {q[i] : i \in 1..Len(q)}
NoPendingOpen == \A o \in Openers : pendingOpen[o] = 0
\* a closeAll invocation has run to its end and none is suspended
TeardownComplete == tornDown /\ awaitEnd = 0 /\ awaitClose = 0
\* close() has been called on every AI session opened on the connection
AllSessionsClosed == \A s \in 1..nSess : aiCalls[s].close > 0
StrictlyIncreasing(q) == \A i, j \in 1..Len(q) : i < j => q[i] < q[j]
FrameIds(q) == [i \in 1..Len(q) |-> q[i].id]

\* C1: after a `stop`, once teardown has completed, no further media message is
\* sent on the connection.  Stated for the connections on which teardown has
\* closed every AI session that was opened and no open is in progress, so that
\* only the interleaving of closeAll's awaits with the receiver loop and the
\* pacer is left.  The code violates it: a chunk received while closeAll
\* awaits re-arms the pacer.
C1_NoMediaAfterTeardown ==
  [][("stop" \in Range(inLog) /\ TeardownComplete /\ NoPendingOpen
        /\ AllSessionsClosed)
      => sent' = sent]_vars

\* C2: a message with `interrupted` set empties the queue (and cancels the
\* timer) within its own step, every frame pending at that moment is dropped,
\* and no dropped frame is ever among the frames sent.
C2_BargeInFlushes ==
  /\ [](discarded \cap Ids(sent) = {})
  /\ [][\A s \in sessOpen, m \in AiMsgs :
          (m.interrupted /\ RecvMsg(s, m)) =>
            /\ Ids(playQueue) \subseteq discarded'
            /\ Ids(playQueue) \cap Ids(playQueue') = {}
            /\ interrupted'
            /\ m.parts = <<>> =>
                 playQueue' = <<>> /\ playTimer' = NoTimer /\ liveTimers' = {}]_vars

\* a barge-in has dropped pending frames (no closeAll has been invoked)
C2_Witness ==
  /\ interrupted /\ discarded # {}
  /\ ~tornDown /\ awaitEnd = 0 /\ awaitClose = 0

\* C3 as claimed: a `start` followed only by media frames with a payload, the
\* open succeeded and the session alive, yields one audio send per media frame
\* whenever the open resolves.
C3_AllMediaForwarded ==
  (/\ Len(inLog) >= 1 /\ inLog[1] = "start"
   /\ \A i \in 2..Len(inLog) : inLog[i] = "media"
   /\ NoPendingOpen /\ nSess = 1 /\ sessOpen = {1})
  => Len(aiAudio) = Len(inLog) - 1

\* C3 amended: a media frame with a payload is forwarded by exactly one audio
\* send, on the session held, when it arrives while a session handle is held,
\* and by none when it arrives while the handle is null; every audio send is
\* that of a media frame received.
C3_ForwardedWhileSessionHeld ==
  /\ [](\A i \in 1..Len(aiAudio) :
          /\ aiAudio[i].s \in 1..nSess
          /\ aiAudio[i].id \in 1..Len(inLog)
          /\ inLog[aiAudio[i].id] = "media")
  /\ [][\A b \in BOOLEAN :
          MediaEvent(b) =>
            IF b /\ geminiSession # NoSession
            THEN aiAudio' = Append(aiAudio, [s |-> geminiSession, id |-> nIn + 1])
            ELSE aiAudio' = aiAudio]_vars

\* a start and two media frames, both forwarded
C3_Witness ==
  inLog = <<"start", "media", "media">> /\ Len(aiAudio) = 2

\* C4: the frames sent are, in order, a subsequence of the frames appended to
\* the queue (frame ids number the appends); every frame appended is sent,
\* still queued behind the sent ones, or was dropped by a clear.
C4_FifoOrder ==
  /\ StrictlyIncreasing(FrameIds(sent))
  /\ StrictlyIncreasing(FrameIds(playQueue))
  /\ \A f \in Ids(sent), g \in Ids(playQueue) : f < g
  /\ Ids(sent) \cup Ids(playQueue) \cup discarded = 1..produced
  /\ Ids(sent) \cap discarded = {}
  /\ Ids(playQueue) \cap discarded = {}

\* frames sent from both sides of a clear, with one still queued
C4_Witness ==
  Len(sent) >= 2 /\ discarded # {} /\ playQueue # <<>>

\* C5: the audio sends are issued in the arrival order of their media frames.
C5_InboundOrder ==
  StrictlyIncreasing([i \in 1..Len(aiAudio) |-> aiAudio[i].id])

C5_Witness == Len(aiAudio) = 2

\* C6: the end-of-input signal and close() are each issued at most once per
\* opened AI session.  The code violates it: a second closeAll entered while
\* the first awaits finds the handle still set.
C6_TeardownIdempotent ==
  \A s \in 1..nSess : aiCalls[s].end <= 1 /\ aiCalls[s].close <= 1

\* C7: once teardown has completed (every opened session closed, no open in
\* progress) the timer is cancelled, the queue is empty and the handle is null.
\* The code violates it: see C1.
C7_ClosedStateHolds ==
  (TeardownComplete /\ NoPendingOpen /\ AllSessionsClosed)
  => /\ playTimer = NoTimer /\ liveTimers = {}
     /\ playQueue = <<>>
     /\ geminiSession = NoSession

\* C8: a pacer tick either changes nothing or removes the head frame and sends
\* exactly it; no step sends anything but the current head, one frame at most.
C8_TickSendsHead ==
  [][/\ \A t \in liveTimers :
          Tick(t) =>
            \/ playQueue' = playQueue /\ sent' = sent
            \/ /\ playQueue # <<>>
               /\ sent' = Append(sent, Head(playQueue))
               /\ playQueue' = Tail(playQueue)
     /\ sent' # sent =>
          /\ playQueue # <<>>
          /\ sent' = Append(sent, Head(playQueue))
          /\ playQueue' = Tail(playQueue)]_vars

\* a tick has sent the head of a longer queue
C8_Witness == Len(sent) >= 1 /\ playQueue # <<>>

\* C9: every frame queued or sent is TWILIO_FRAME_BYTES long.  The code
\* violates it: chunkBuffer leaves a short last frame.
C9_FramesAre160 ==
  /\ \A i \in 1..Len(playQueue) : playQueue[i].len = TWILIO_FRAME_BYTES
  /\ \A i \in 1..Len(sent) : sent[i].len = TWILIO_FRAME_BYTES

C11_SendFailureContained ==
  [][/\ \A b \in BOOLEAN :
          (MediaEvent(b) /\ aiFailed' # aiFailed) =>
            /\ UNCHANGED <<geminiSession, playQueue, playTimer, liveTimers,
                           wsState, streamSid, interrupted, sessOpen, aiCalls,
                           sent, pendingOpen, awaitEnd, awaitClose, tornDown,
                           escaped>>
            /\ MediaGuard(geminiSession', TRUE)
     /\ (aiFailed # {} /\ geminiSession # NoSession /\ MediaEvent(TRUE)) =>
          aiAudio' = Append(aiAudio, [s |-> geminiSession, id |-> nIn + 1])]_vars

\* with the pacer armed, a send failed and the send of a later frame succeeded
C11_Witness ==
  /\ playTimer # NoTimer /\ playQueue # <<>>
  /\ \E i, j \in 1..Len(aiAudio) :
       i < j /\ aiAudio[i].id \in aiFailed /\ aiAudio[j].id \notin aiFailed

\* C12: a transport message that is not parseable JSON changes no session
\* state (stream id, AI handle, queue, timer, interruption flag), sends nothing
\* to the AI session or on the transport, lets no exception out and leaves the
\* connection open.
C12_BadJsonIgnored ==
  [][BadJson =>
       /\ UNCHANGED <<streamSid, geminiSession, playQueue, playTimer,
                      liveTimers, interrupted>>
       /\ UNCHANGED <<aiCalls, aiAudio, aiFailed, sessOpen, pendingOpen,
                      awaitEnd, awaitClose>>
       /\ UNCHANGED <<sent, lastSid>>
       /\ wsState' = "OPEN" /\ escaped' = escaped /\ tornDown' = tornDown]_vars

\* an unparseable message handled in mid-call: a session held, frames queued
\* and the pacer armed
C12_Witness ==
  /\ inLog # <<>> /\ inLog[Len(inLog)] = "garbage"
  /\ geminiSession \in sessOpen
  /\ playTimer # NoTimer /\ playQueue # <<>>
  /\ ~escaped

\* C13: a media frame is forwarded only while the handle held is that of an
\* open AI session: a frame received before the session is opened, after
\* teardown, or after the session was lost (its response stream ended or
\* raised) is dropped with no send attempted and no state change.  The code
\* violates it: the handle of a lost session stays set, so the send is made.
C13_ForwardOnlyWhileOpen ==
  [][\A b \in BOOLEAN :
       (MediaEvent(b) /\ geminiSession \notin sessOpen) =>
         UNCHANGED <<aiAudio, aiFailed, aiCalls, geminiSession, playQueue,
                     playTimer, liveTimers, interrupted, streamSid, wsState>>]_vars

\* C14: when the AI service ends the response stream of the session held (the
\* stream ends or raises), teardown is triggered: whenever the handle held is
\* that of a session no longer connected, a closeAll is under way, and the
\* step in which the stream ends stops the pacer and clears the queue.  The
\* code violates it: the receiver task logs the error and ends, closeAll is
\* not called.
C14_LossTriggersTeardown ==
  /\ []((geminiSession # NoSession /\ geminiSession \notin sessOpen)
          => awaitEnd + awaitClose > 0)
  /\ [][\A s \in sessOpen :
          (AiClose(s) /\ s = geminiSession) =>
            playTimer' = NoTimer /\ playQueue' = <<>>]_vars

\* C15: every media message sent carries the stream identifier that a `start`
\* message of the connection delivered, never null.  The code violates it: a
\* `start` without start.streamSid sets streamSid to null and the session is
\* opened all the same.
C15_MediaTagged == lastSid \in {NoMsg} \cup Sids

\* C17: no exception leaves a handler of the connection or the receiver task,
\* whatever the transport delivers (start, media, stop, unparseable data, JSON
\* of unexpected content, close, error) and whichever AI adapter call fails.
\* The code violates it: the message `null` parses, and `msg.event` then throws
\* outside every try block.
C17_NothingEscapes == ~escaped

\* the state of connection c
ConnState(c) == IF c = cur THEN Closure ELSE other

\* C16: an event handled for one connection leaves every other connection's
\* playback queue, pacer timer, interruption flag, stream id and AI session
\* handle (its whole state) unchanged; the event loop turning from one
\* connection to the other changes the state of neither.
C16_SessionsIsolated ==
  [][\A c \in Conns :
       (c # cur \/ cur' # cur) => ConnState(c)' = ConnState(c)]_vars

\* both connections in mid-call with a session held, frames queued and the
\* pacer armed; a barge-in was handled on one of them and a frame sent on it
C16_Witness ==
  /\ geminiSession # NoSession /\ other.geminiSession # NoSession
  /\ interrupted /\ playTimer # NoTimer /\ Len(sent) >= 1
  /\ ~other.interrupted
  /\ other.playQueue # <<>> /\ other.playTimer # NoTimer
  /\ other.sent = <<>>

\* C18: for every signed 16-bit sample s, decode(encode(s)) is within 1024 of
\* s.  The code violates it: encode limits the biased magnitude to MULAW_MAX
\* (13 bits) though its input has 16, and decode does not undo encode's scale.
C18_RoundTripWithin1024 ==
  fnOp = "encode-decode" =>
    (fnRes - fnArg <= 1024 /\ fnArg - fnRes <= 1024)

\* C19: the codec is total: encode returns a byte 0..255 for every signed
\* 16-bit sample, decode a value within -32768..32767 for every byte 0..255,
\* so that out[i] = byte and writeInt16LE(sample) are always in range.
C19_CodecTotal ==
  /\ fnOp = "encode" => fnRes \in 0..255
  /\ fnOp \in {"decode", "encode-decode"} => fnRes \in Int16

\* the lowest sample encoded and its byte decoded
C19_Witness ==
  fnOp = "encode-decode" /\ fnArg = Int16Min /\ fnRes \in Int16

\* C20: resampling at equal rates returns the input buffer, same length and
\* same samples, for every buffer that is not empty and every rate.
C20_SameRateIdentity ==
  (fnOp = "resample" /\ fnArg.inRate = fnArg.outRate /\ fnArg.buf # <<>>)
  => fnRes = fnArg.buf

\* a buffer of several samples, not all zero, resampled at equal rates
C20_Witness ==
  /\ fnOp = "resample" /\ fnArg.inRate = fnArg.outRate
  /\ Len(fnArg.buf) >= 2 /\ fnArg.buf[1] # 0
  /\ Len(fnRes) = Len(fnArg.buf)

\* C21: the resampler returns at least one sample for every buffer of at least
\* one sample and every pair of rates, in particular for a buffer of one
\* sample resampled to a lower rate.
C21_ResampleNotEmpty ==
  (fnOp = "resample" /\ fnArg.buf # <<>>) => Len(fnRes) >= 1

\* one sample resampled to a third of its rate: floor(1/3) = 0 samples by the
\* ratio
C21_Witness ==
  /\ fnOp = "resample" /\ Len(fnArg.buf) = 1
  /\ fnArg.inRate = GEMINI_OUT_RATE_DEFAULT /\ fnArg.outRate = TWILIO_RATE
  /\ Len(fnRes) = 1

RECURSIVE Flatten(_)
Flatten(ss) == IF ss = <<>> THEN <<>> ELSE Head(ss) \o Flatten(Tail(ss))

\* C22: chunkBuffer on a buffer of length L with chunk size n >= 1 yields
\* ceil(L/n) slices, each of length n except the last, which has length L mod n
\* when that is not zero; the slices in order, concatenated, are the buffer
\* (so they are consecutive and do not overlap); their lengths are those the
\* framing of the playback queue works with.
C22_ChunkPartition ==
  fnOp = "chunk" =>
    LET L == Len(fnArg.buf)
        n == fnArg.n
        k == Len(fnRes)
    IN /\ k = (L + n - 1) \div n
       /\ \A j \in 1..(k - 1) : Len(fnRes[j]) = n
       /\ k >= 1 => Len(fnRes[k]) = (IF L % n = 0 THEN n ELSE L % n)
       /\ Flatten(fnRes) = fnArg.buf
       /\ [j \in 1..k |-> Len(fnRes[j])] = chunkBuffer(L, n)

\* two whole slices and a shorter last one
C22_Witness ==
  /\ fnOp = "chunk" /\ fnArg.n = 2
  /\ Len(fnRes) = 3 /\ Len(fnRes[3]) = 1
  /\ fnRes[1] # fnRes[2]

\* the number of frames the parts of one message make
RECURSIVE TotalFrames(_)
TotalFrames(parts) ==
  IF parts = <<>> THEN 0
  ELSE Len(PartFrames(Head(parts), 0)) + TotalFrames(Tail(parts))

\* a step that runs stopPlaybackPump
ClearStep ==
  \/ StopEvent \/ CloseEvent \/ ErrorEvent
  \/ \E s \in sessOpen, m \in AiMsgs : m.interrupted /\ RecvMsg(s, m)

\* C23: enqueue of a chunk's frames, dequeue by the pacer tick and clear are
\* exclusive atomic steps on the playback queue.  A step that sends a frame
\* removes the head and neither appends nor clears; a receiver step appends all
\* frames of every chunk of its message at the tail and sends nothing, so every
\* tick finds whole chunks; after a step that clears, no frame appended before
\* it is in the queue.
C23_QueueStepsAtomic ==
  [][/\ sent' # sent =>
          /\ produced' = produced /\ discarded' = discarded
          /\ playQueue' = Tail(playQueue)
     /\ \A s \in sessOpen, m \in AiMsgs :
          RecvMsg(s, m) =>
            LET n == TotalFrames(m.parts)
                kept == IF m.interrupted THEN <<>> ELSE playQueue
            IN /\ sent' = sent
               /\ produced' = produced + n
               /\ Len(playQueue') = Len(kept) + n
               /\ SubSeq(playQueue', 1, Len(kept)) = kept
               /\ \A j \in 1..n : playQueue'[Len(kept) + j].id = produced + j
     /\ ClearStep => Ids(playQueue') \cap (1..produced) = {}]_vars

\* a chunk of two frames appended after a clear that dropped frames, its first
\* frame sent and its second still queued
C23_Witness ==
  /\ discarded # {} /\ Len(sent) >= 1 /\ Len(playQueue) = 1
  /\ playQueue[1].id = sent[Len(sent)].id + 1
  /\ playQueue[1].len < TWILIO_FRAME_BYTES
  /\ \A d \in discarded : d < sent[Len(sent)].id

\* C24: in every reachable state at most one pacer timer of the connection is
\* armed, and an armed timer is the one playTimer refers to: across chunks,
\* barge-ins, repeated `start` messages and teardowns no interval is left
\* running without a reference through which it can be cancelled.
C24_OneTimer ==
  /\ Cardinality(liveTimers) <= 1
  /\ liveTimers = (IF playTimer = NoTimer THEN {} ELSE {playTimer})

\* a timer armed again after a barge-in and a teardown stopped earlier ones
C24_Witness ==
  /\ interrupted /\ tornDown /\ discarded # {}
  /\ playTimer # NoTimer /\ liveTimers = {playTimer}

\* C25: a connection has at most one open AI session at any time, and an open
\* session is the one the handle refers to: when a session is opened (on a
\* second `start` as well) any session opened before has been closed.  The
\* code violates it: startGemini overwrites the handle of a session that is
\* still open.
C25_OneOpenSession ==
  /\ Cardinality(sessOpen) <= 1
  /\ sessOpen \subseteq {geminiSession}

\* the `start` messages handled so far
StartsHandled == Cardinality({i \in 1..Len(inLog) : inLog[i] = "start"})

\* C26: when a stop, close or error arrives while the open of the AI session
\* is still in progress, the session is closed and its handle released once the
\* open resolves, and no opening text is sent on it after teardown.  Stated
\* for one `start` and at the point where nothing is left to run: the transport
\* is closed, no closeAll is suspended and no open is pending.  The code
\* violates it: closeAll finds a null handle and ends; startGemini then sets the
\* handle, starts the receiver and sends the opening text.
C26_OpenAfterTeardownClosed ==
  /\ []((StartsHandled <= 1 /\ wsState = "CLOSED" /\ TeardownComplete
           /\ NoPendingOpen)
          => (AllSessionsClosed /\ geminiSession = NoSession))
  /\ [][(StartsHandled <= 1 /\ tornDown) => aiCalls' = aiCalls]_vars

\* C27: once teardown has run (a closeAll has completed, none is suspended, no
\* open is pending and every session opened has been closed), no later
\* transport event begins the open of an AI session, opens one, arms the pacer
\* or forwards audio.  The code violates it: the `start` branch does not look
\* at what happened before and calls startGemini again.
C27_ClosedIsTerminal ==
  [][(TeardownComplete /\ NoPendingOpen /\ AllSessionsClosed)
       => /\ pendingOpen' = pendingOpen /\ nSess' = nSess
          /\ aiAudio' = aiAudio
          /\ liveTimers' \subseteq liveTimers]_vars

\* C28: within teardown the end-of-input signal is sent to the AI session
\* before close() is called on it, close() is called whatever the outcome of
\* that send, and the handle is null when closeAll ends.  The code violates the
\* first part when a second `start` replaces the handle during the await (C25):
\* close() then goes to a session that got no end-of-input.
C28_EndBeforeClose ==
  /\ [](\A s \in 1..nSess : aiCalls[s].close <= aiCalls[s].end)
  /\ [][/\ (CloseAllAfterEnd /\ geminiSession # NoSession)
             => aiCalls'[geminiSession].close = aiCalls[geminiSession].close + 1
        /\ CloseAllAfterClose => geminiSession' = NoSession]_vars

\* C29: once the end-of-input signal has been issued to the AI session held,
\* no media frame is forwarded to that session any more, also not while
\* closeAll is still awaiting.  The code violates it: the handle stays set
\* until closeAll ends and the media branch tests nothing else.
C29_NoAudioAfterEnd ==
  [][\A b \in BOOLEAN :
       (MediaEvent(b) /\ geminiSession # NoSession
          /\ aiCalls[geminiSession].end > 0)
       => aiAudio' = aiAudio]_vars

\* C30: every open that succeeds sends exactly one opening text on the new
\* session, the opening_text of the `start` message whose open it is or the
\* default when that message has none, and sends it in the run that sets the
\* handle, before any media frame can be forwarded on the session: every
\* session has one text, and every audio send goes to a session that has it.
C30_OpeningTextFirst ==
  /\ [](/\ Len(aiCalls) = nSess
        /\ \A s \in 1..nSess :
             Len(aiCalls[s].text) = 1 /\ aiCalls[s].text[1] \in Openers
        /\ \A i \in 1..Len(aiAudio) :
             aiAudio[i].s \in 1..nSess /\ aiCalls[aiAudio[i].s].text # <<>>)
  /\ [][/\ \A m \in StartMsgsAll :
             StartEvent(m) =>
               /\ pendingOpen' = [pendingOpen EXCEPT ![m.opener] = @ + 1]
               /\ aiCalls' = aiCalls
        /\ \A o \in Openers :
             OpenResolve(o) =>
               /\ pendingOpen[o] > 0
               /\ aiCalls' = Append(aiCalls, [text |-> <<o>>, end |-> 0, close |-> 0])
               /\ \A i \in 1..Len(aiAudio') : aiAudio'[i].s # nSess'
        /\ \A s \in 1..nSess : aiCalls'[s].text = aiCalls[s].text]_vars

\* a session opened by a start with opening_text, the text sent on it and a
\* media frame forwarded after it
C30_Witness ==
  /\ nSess = 1 /\ aiCalls[1].text = <<"custom">>
  /\ Len(aiAudio) = 1 /\ aiAudio[1].s = 1

\* C31: a pacer tick that finds the queue empty or the transport not open is
\* a no-op.  A tick is the only step that sends a frame and the only step that
\* removes the head of the queue without discarding it, so: a frame is sent
\* only from a non-empty queue while the transport is open, the step that
\* takes the head off the queue without a clear is that send, and a tick in
\* the idle case changes nothing at all.
C31_IdleTickNoOp ==
  [][/\ sent' # sent =>
          /\ wsState = "OPEN" /\ playQueue # <<>>
          /\ sent' = Append(sent, Head(playQueue))
          /\ playQueue' = Tail(playQueue)
     /\ (playQueue # <<>> /\ playQueue' = Tail(playQueue)
           /\ discarded' = discarded /\ produced' = produced) =>
          (wsState = "OPEN" /\ sent' = Append(sent, Head(playQueue)))
     /\ \A t \in liveTimers :
          (Tick(t) /\ (wsState # "OPEN" \/ playQueue = <<>>)) =>
            UNCHANGED vars]_vars

\* the pacer is armed over a non-empty queue while the transport is closed:
\* frames the AI produced after the teardown cleared the queue
C31_Witness ==
  /\ wsState # "OPEN" /\ playQueue # <<>>
  /\ playTimer # NoTimer /\ playTimer \in liveTimers
  /\ sent # <<>>

\* the interpolated value of output sample i (from 0) of the call in fnArg, as
\* the fraction InterpNum(i) / fnArg.outRate
InterpI0(i) == (i * fnArg.inRate) \div fnArg.outRate
InterpI1(i) == Min(InterpI0(i) + 1, Len(fnArg.buf) - 1)
InterpNum(i) ==
  fnArg.buf[InterpI0(i) + 1] * fnArg.outRate
    + (fnArg.buf[InterpI1(i) + 1] - fnArg.buf[InterpI0(i) + 1])
        * ((i * fnArg.inRate) % fnArg.outRate)
ResampledCall ==
  fnOp = "resample" /\ fnArg.buf # <<>> /\ fnArg.inRate # fnArg.outRate

\* C32 as stated: every output sample is the nearest integer to the
\* interpolated value, an exact half rounded away from zero for negative as
\* well as positive values.  Math.round takes -1.5 to -1.
C32_HalfAwayFromZero ==
  ResampledCall =>
    \A i \in 0..(Len(fnRes) - 1) :
      LET x2 == 2 * InterpNum(i)          \* 2 * value * outRate
          d == fnArg.outRate
          v == fnRes[i + 1]
      IN IF x2 >= 0 THEN 2 * d * v - d <= x2 /\ x2 < 2 * d * v + d
         ELSE 2 * d * v - d < x2 /\ x2 <= 2 * d * v + d

\* C32 amended: every output sample is the nearest integer to the
\* interpolated value, an exact half rounded up, towards positive infinity,
\* for negative as well as positive values (-3.5 becomes -3, 3.5 becomes 4).
C32_HalfUp ==
  ResampledCall =>
    \A i \in 0..(Len(fnRes) - 1) :
      LET x2 == 2 * InterpNum(i)
          d == fnArg.outRate
          v == fnRes[i + 1]
      IN 2 * d * v - d <= x2 /\ x2 < 2 * d * v + d

\* <<-3, 0>> from 8000 to 16000: the second output interpolates to -1.5
C32_Witness ==
  /\ ResampledCall
  /\ fnArg.buf = <<-3, 0>> /\ fnArg.inRate = 8000 /\ fnArg.outRate = 16000
  /\ 2 * InterpNum(1) = (0 - 3) * fnArg.outRate
  /\ fnRes[2] = 0 - 1

C34_InboundPure ==
  /\ [](fnOp = "inbound" =>
         LET N == Len(fnArg) IN
         /\ N >= 1
         /\ Len(fnRes) = 2 * N
         /\ (N = TWILIO_FRAME_BYTES => 2 * Len(fnRes) = 640)
         /\ \A k \in 1..N :
              LET a == mulawToLinearSample(fnArg[k])
                  b == mulawToLinearSample(fnArg[Min(k + 1, N)])
              IN /\ fnRes[2 * k - 1] = a
                 /\ 2 * fnRes[2 * k] - 1 <= a + b
                 /\ a + b < 2 * fnRes[2 * k] + 1)
  /\ [][fnOp' = "inbound" => UNCHANGED <<connVars, fnArg>>]_vars

\* a whole 160-byte frame of mixed bytes went through the pipeline
C34_Witness ==
  /\ fnOp = "inbound"
  /\ Len(fnArg) = TWILIO_FRAME_BYTES /\ fnArg[1] # fnArg[2]
  /\ Len(fnRes) = 320 /\ fnRes[1] # fnRes[2]

FrameLens(q) == [i \in 1..Len(q) |-> q[i].len]

\* the frame lengths of the parts of one message when every part is resampled
\* from its own hint, and from the default when it has none
RECURSIVE HintedLens(_)
HintedLens(parts) ==
  IF parts = <<>> THEN <<>>
  ELSE LET p == Head(parts)
           from == IF p.rate # 0 THEN p.rate ELSE 24000
           bytes8k == IF from = 8000 THEN p.bytes \div 2
                      ELSE Max(1, ((p.bytes \div 2) * 8000) \div from)
       IN chunkBuffer(bytes8k, TWILIO_FRAME_BYTES) \o HintedLens(Tail(parts))

\* C35: each audio chunk of an AI message is resampled from the rate its own
\* mime hint names, and from the default 24000 only when it has no hint; the
\* rate is chosen per chunk, whatever the chunks before it carried.  Stated on
\* the frames a receiver step appends: their lengths are those of every chunk
\* resampled from its own rate, in every state the step is taken from.
C35_RatePerChunk ==
  [][\A s \in 1..nSess : \A m \in AiMsgs :
       RecvMsg(s, m) =>
         LET kept == IF m.interrupted THEN <<>> ELSE FrameLens(playQueue)
         IN FrameLens(playQueue') = kept \o HintedLens(m.parts)]_vars

\* a chunk hinted 8000 (frames of 160 and 40 bytes), then in a later message a
\* chunk without hint (3 samples at 24000: 1 byte) and a chunk hinted 16000
C35_Witness ==
  /\ nAiMsg = 2 /\ interrupted
  /\ FrameLens(playQueue) = <<160, 40, 1, 160>>

\* the ids of the frames sent so far, and the largest id a frame can get: a
\* message of AiMsgs makes two frames at most
SentIds == Ids(sent)
MaxFrameId == 2 * MaxAiMsg

\* C36: under fair pacer ticks every frame appended to the playback queue is
\* eventually transmitted or discarded by a barge-in or teardown clear, as
\* long as the transport stays open; and whenever the queue is not empty the
\* timer playTimer refers to is armed.
C36_QueueDrains ==
  /\ [](playQueue # <<>> => (playTimer # NoTimer /\ playTimer \in liveTimers))
  /\ \A id \in 1..MaxFrameId :
       (id \in Ids(playQueue))
         ~> (id \in SentIds \/ id \in discarded \/ wsState # "OPEN")

\* frames have been transmitted, others discarded by a clear, and more are
\* queued while the transport is open
C36_Witness ==
  /\ wsState = "OPEN" /\ playQueue # <<>> /\ playTimer \in liveTimers
  /\ SentIds # {} /\ discarded # {}

\* C37: encoding is the left inverse of decoding on code words: for every
\* byte b in 0..255, encode(decode(b)) = b.  The code violates it: decode
\* scales the mantissa by exponent + 2 and subtracts the bias, encode reads
\* the exponent from thresholds 0x1f << (exp + 3), so the two do not use the
\* same segments; byte 255 decodes to -29, which encodes to 120.
C37_EncodeInvertsDecode ==
  fnOp = "decode-encode" => fnRes = fnArg

\* the decision the sheet keywords give for the text of request r under the
\* configuration its load returned
KeywordHit(r) == routeByKeywords(r.text, RoutingRules(r.cfg.rules))
\* the decision of a request whose Gemini call failed
IsGeminiFailed(resp) ==
  /\ resp.status = 200 /\ resp.ok
  /\ resp.decision.route = "unknown" /\ resp.decision.confidence = 0
  /\ resp.decision.by = "gemini_failed"

\* C38: POST /route decides by the sheet keywords first and calls Gemini only
\* when no keyword rule matches; when that call fails for any reason (key
\* missing, model name invalid, timeout, HTTP error, body or candidate text
\* that does not parse, route that is not valid) the request is still answered
\* with status 200, ok and the decision unknown / 0 / gemini_failed.  An error
\* response is sent only when no configuration could be loaded.
C38_KeywordsThenGemini ==
  /\ [](\A r \in BagToSet(reqs) :
          r.pc = "gemini" =>
            (r.kind = "route" /\ r.cfg # NoData /\ KeywordHit(r) = NoDecision))
  /\ []((answered.kind = "route" /\ answered.resp.status = 200) =>
          IF KeywordHit(answered) # NoDecision
          THEN /\ answered.resp.decision = KeywordHit(answered)
               /\ answered.resp.decision.by = "sheet_keywords"
          ELSE /\ answered.resp.decision.by \in {"gemini", "gemini_failed"}
               /\ (~ENV.GEMINI_API_KEY \/ ENV.GEMINI_MODEL = "gemini-1.5-flash")
                    => IsGeminiFailed(answered.resp))
  /\ []((answered.kind = "route" /\ answered.resp.status # 200) =>
          answered.cfg = NoData)
  /\ [][\A r \in BagToSet(reqs) : \A reply \in GeminiReplies :
          GeminiDone(r, reply) =>
            IF reply.kind = "json" /\ reply.route \in {"sales", "support", "ambiguous"}
            THEN /\ answered'.resp.status = 200
                 /\ answered'.resp.decision.by = "gemini"
                 /\ answered'.resp.decision.route = reply.route
                 /\ answered'.resp.decision.confidence \in 0..100
            ELSE IsGeminiFailed(answered'.resp)]_vars

\* a route request whose text no keyword matched, with a configuration
\* loaded, answered unknown after the Gemini call timed out
C38_Witness ==
  /\ answered.kind = "route" /\ answered.cfg # NoData
  /\ KeywordHit(answered) = NoDecision
  /\ LAST_GEMINI_ROUTER_ERROR = "Gemini timeout"
  /\ IsGeminiFailed(answered.resp)

\* a request whose load is under way
Loading(r) == r.pc \in {"authorize", "tab"}

\* C39: the config cache is replaced only by a configuration that was loaded
\* in full.  loadConfigFromSheet(false) returns the cached data without
\* fetching while the cache is not empty and younger than the TTL, and loads
\* otherwise; loadConfigFromSheet(true) always loads; a load that fails at
\* any step (sheet id or service account missing, authorize, any tab fetch)
\* leaves CACHE.data and CACHE.loaded_at as they were.
C39_CacheOnlyFullLoads ==
  /\ [](/\ (CACHE.data = NoData) = (CACHE.loaded_at = 0)
        /\ CACHE.data # NoData =>
             (CACHE.data.tabs = 8 /\ CACHE.data.rules \in {1, 2}
                /\ CACHE.loaded_at <= now)
        /\ (answered.kind = "config-check" /\ answered.resp.status = 200) =>
             (~answered.resp.from_cache /\ answered.resp.data.tabs = 8))
  /\ [][/\ \A t \in Texts :
             Request("route", t) =>
               IF CACHE.data # NoData /\ now - CACHE.loaded_at < 60 * 1000
               THEN /\ CACHE' = CACHE
                    /\ \/ /\ reqs' = reqs
                          /\ answered'.from_cache /\ answered'.cfg = CACHE.data
                       \/ \E r \in BagToSet(reqs') :
                            /\ reqs' = reqs (+) SetToBag({r})
                            /\ r.pc = "gemini" /\ r.from_cache /\ r.cfg = CACHE.data
               ELSE \/ \E r \in BagToSet(reqs') :
                         reqs' = reqs (+) SetToBag({r}) /\ r.pc = "authorize"
                    \/ reqs' = reqs /\ answered'.resp.status = 500
        /\ \A t \in Texts :
             Request("config-check", t) =>
               \/ \E r \in BagToSet(reqs') :
                    reqs' = reqs (+) SetToBag({r}) /\ r.pc = "authorize"
               \/ reqs' = reqs /\ answered'.resp.status = 500
        /\ CACHE' # CACHE =>
             /\ \E r \in BagToSet(reqs) : r.tabs = 7 /\ TabDone(r, TRUE)
             /\ CACHE'.loaded_at = now /\ CACHE'.data.tabs = 8
        /\ \A r \in BagToSet(reqs) :
             (Loading(r) /\ (AuthorizeDone(r, FALSE) \/ TabDone(r, FALSE))) =>
               (CACHE' = CACHE /\ answered'.resp.status = 500)]_vars

\* a forced load failed after the sheet was edited: the cache still holds the
\* configuration loaded before, with its timestamp
C39_Witness ==
  /\ answered.kind = "config-check" /\ answered.resp.status = 500
  /\ CACHE.data # NoData /\ CACHE.data.rules = 1 /\ sheet = 2
  /\ CACHE.loaded_at < now

====
